---- MODULE Spec2Model ----
(***************************************************************************)
(* A model of samplecode_dataingestion.py: the trial hierarchy (TrialBase, *)
(* TrialA, TrialB, TrialC), the cohort aggregator (Cohort), the schedule   *)
(* checker (Schedule) and the job composer (create_import).                *)
(*                                                                         *)
(* A Python dict is a TLA+ function whose domain is the set of its keys;   *)
(* the attributes of a Python object are a dict from attribute name to     *)
(* value, so hasattr(o, "a") is "a" \in DOMAIN o.  A Python list or str is *)
(* a record [isStr, items]: a str is the sequence of its characters.       *)
(* A call of a method is a function on a frame [obj, out, exc, ret]: the   *)
(* object's attributes, the lines written to stdout and the logger, the    *)
(* exception raised ("none" when none) and the value returned.             *)
(***************************************************************************)
EXTENDS Integers, Sequences, FiniteSets, TLC

VARIABLES
    files,   \* the data files on disk, by the path load_data resolves
    pc,      \* "new": nothing constructed; "live": an object; "raised": an unhandled exception
    cls,     \* the class of the object: [endpoint, wrapped, trial_class]
    obj,     \* the attributes of the object
    out,     \* the lines written to stdout and to the logger, in order
    exc,     \* the unhandled exception, "none" when there is none
    ret,     \* the value returned by the last call: [kind, val]
    args,    \* the arguments the object was constructed from
    calls,   \* the calls made so far, in order
    mark     \* the number of lines written before the last call

vars == <<files, pc, cls, obj, out, exc, ret, args, calls, mark>>

(***************************************************************************)
(* Bounds.                                                                 *)
(***************************************************************************)
\* Method calls made on the object after its construction.
MaxCalls == 2

(***************************************************************************)
(* Python values.                                                          *)
(***************************************************************************)
EmptyDict == << >>

\* dict.get(k, default)
Get(d, k, default) == IF k \in DOMAIN d THEN d[k] ELSE default

\* d[k] = v
Put(d, k, v) == (k :> v) @@ d

List(xs) == [isStr |-> FALSE, items |-> xs]
Str(cs) == [isStr |-> TRUE, items |-> cs]
StrAll == Str(<<"a", "l", "l">>)

Range(s) == {s[i] : i \in DOMAIN s}

RetNone == [kind |-> "None", val |-> FALSE]
RetBool(b) == [kind |-> "bool", val |-> b]
RetDict(d) == [kind |-> "dict", val |-> d]

(***************************************************************************)
(* Inputs.  Cohort identifiers are YAML scalars: "c1" and "c2" are strings *)
(* and "n7" stands for an integer identifier (the YAML scalar 7).          *)
(***************************************************************************)
StrCohorts == {"c1", "c2"}
IntCohorts == {"n7"}

TrialClasses == {"TrialA", "TrialB", "TrialC"}

DefaultDataFile == "sample_trial_data.yaml"
AltDataFile == "alt_trial_data.yaml"

CohortSelections ==
    { List(<< >>), List(<<"c1">>), List(<<"c1", "c2">>), List(<<"c2", "c2">>),
      List(<<"n7">>), StrAll }

OptField(k, vals) == {EmptyDict} \cup {k :> v : v \in vals}

\* The settings of one trial in the main config.
TrialConfigs ==
    { a @@ b : a \in OptField("cohorts", CohortSelections),
               b \in OptField("schedule", BOOLEAN) }
    \cup { ("data_file" :> AltDataFile) @@ a @@ ("schedule" :> TRUE) :
               a \in OptField("cohorts", {List(<<"c1">>)}) }

\* The main config: a mapping from trial name to trial settings.
ImportConfigs ==
    {EmptyDict, "TrialA" :> (("cohorts" :> List(<<"c1">>)) @@ ("schedule" :> TRUE))}
    \cup {"TrialB" :> tc : tc \in TrialConfigs}

\* The (name, import_config) pairs a trial is constructed from.
TrialArgs ==
    {[name |-> "TrialB", import_config |-> ic] : ic \in ImportConfigs}
    \cup {[name |-> "TrialA", import_config |-> ic] :
              ic \in {c \in ImportConfigs : "TrialA" \in DOMAIN c \/ c = EmptyDict}}

InfoFull == ("d" :> <<1, 2, 3>>) @@ ("dose" :> 2) @@ ("patient_count" :> 5)
InfoNoDose == ("d" :> <<1, 2>>)
InfoNoSamples == ("dose" :> 3) @@ ("patient_count" :> 4)

ScheduleData == "visit1" :> "day1"

\* The data of one trial in a data file.
TrialData ==
    { EmptyDict,
      "schedule" :> ScheduleData,
      ("cohorts" :> ("c1" :> InfoFull)) @@ ("schedule" :> ScheduleData),
      "cohorts" :> (("c1" :> InfoNoDose) @@ ("c2" :> InfoNoSamples)),
      ("cohorts" :> (("c1" :> EmptyDict) @@ ("n7" :> InfoFull))) @@ ("schedule" :> EmptyDict) }

FileMissing == [kind |-> "missing", map |-> EmptyDict]
\* A file with no YAML document in it: yaml.safe_load returns None.
FileNull == [kind |-> "null", map |-> EmptyDict]
FileMap(m) == [kind |-> "map", map |-> m]

FileContents ==
    { FileMissing, FileNull, FileMap(EmptyDict),
      FileMap("TrialA" :> (("cohorts" :> ("c1" :> InfoFull)) @@ ("schedule" :> ScheduleData))) }
    \cup {FileMap("TrialB" :> td) : td \in TrialData}

\* The files on disk, by the path load_data resolves.
FileSystems ==
    { (DefaultDataFile :> f) @@ (AltDataFile :> FileMissing) : f \in FileContents }
    \cup { (DefaultDataFile :> f) @@ (AltDataFile :> FileMap("TrialB" :> ("cohorts" :> ("c2" :> InfoFull)))) :
              f \in {FileMissing, FileMap("TrialB" :> ("schedule" :> ScheduleData))} }

(***************************************************************************)
(* Frames.                                                                 *)
(***************************************************************************)
Frame(o, w, e, r) == [obj |-> o, out |-> w, exc |-> e, ret |-> r]
Emit(s, line) == [s EXCEPT !.out = Append(@, line)]
Raise(s, e) == [s EXCEPT !.exc = e]
SetAttr(s, a, v) == [s EXCEPT !.obj = Put(@, a, v)]
Return(s, r) == [s EXCEPT !.ret = r]

\* x = v; F(x)
Let(v, F(_)) == F(v)

\* the statements F after a call that ended in frame s: skipped when it raised
Then(s, F(_)) == IF s.exc # "none" THEN s ELSE F(s)

\* bool(v) of a dict
Truthy(d) == DOMAIN d # {}

(***************************************************************************)
(* The lines written by print and by the logger, without their arguments.  *)
(***************************************************************************)
MsgTrialData == "print: {trial_data}"
MsgLoaded == "INFO: Loaded data for {trial_name} from {data_file}"
MsgNoData == "WARNING: No data found for {trial_name} in {data_file}"
MsgNoFile == "WARNING: Data file {data_file} not found. Continuing without data."
MsgTrialName == "print: Trial Name: {trial_name}"
MsgConfigLine == "print: Config {k}: {v}"
MsgHello == "print: Hello! My name is {TRIAL_NAME}."
MsgKeys == "print: My keys are: {keys}"
MsgProcessed == "INFO: Processed data for cohorts: {processed_data}"
MsgPatients == "print: Cohort {cohort_name}: {patient_count} patients enrolled."
MsgCommencing == "INFO: Commencing data fetch cohorts: {initials}"
MsgAll == "INFO: All cohorts selected."
MsgSelected == "INFO: Selected cohort(s): {cohorts}"
MsgNoneSelected == "INFO: No cohorts selected."
MsgCollecting == "INFO: Collecting schedule for the trial."
MsgSchedulePrinted == "print: Schedule data: {schedule_data}"
MsgScheduleLogged == "INFO: Schedule data: {schedule_data}"
MsgInherited == "INFO: Inherited {trial_name} and associated values."
MsgWelcome == "print: Welcome to the {trial_name} clinical trial!"
MsgNotInherited == "ERROR: Failed to inherit expected class. Check function arguments."
NoCohortsMessage == "No cohorts were passed. Import pipeline exiting..."
MsgNoCohorts == "ERROR: No cohorts were passed. Import pipeline exiting..."

(***************************************************************************)
(* TrialBase, TrialA, TrialB, TrialC.  self is the frame's object.         *)
(***************************************************************************)
\* load_data reading the default file whatever the configured data_file
load_data_default_path(s, fs) ==
    Let(fs[DefaultDataFile], LAMBDA file :
        IF file.kind # "missing"
        THEN IF file.kind = "null"
             THEN Raise(s, "AttributeError")
             ELSE Let(SetAttr(s, "trial_data", Get(file.map, s.obj["trial_name"], EmptyDict)),
                      LAMBDA s1 :
                          IF Truthy(s1.obj["trial_data"])
                          THEN Emit(Emit(s1, MsgTrialData), MsgLoaded)
                          ELSE Emit(s1, MsgNoData))
        ELSE SetAttr(Emit(s, MsgNoFile), "trial_data", EmptyDict))

\* fs is keyed by the configured data_path: the file read is os.getcwd() + data_path
load_data(s, fs) ==
    Let(fs[Get(s.obj["trial_config"], "data_file", DefaultDataFile)], LAMBDA file :
        IF file.kind # "missing"
        THEN IF file.kind = "null"
             THEN \* all_trial_data is None: None.get raises
                  Raise(s, "AttributeError")
             ELSE Let(SetAttr(s, "trial_data", Get(file.map, s.obj["trial_name"], EmptyDict)),
                      LAMBDA s1 :
                          IF Truthy(s1.obj["trial_data"])
                          THEN Emit(Emit(s1, MsgTrialData), MsgLoaded)
                          ELSE Emit(s1, MsgNoData))
        ELSE SetAttr(Emit(s, MsgNoFile), "trial_data", EmptyDict))

TrialBase_init(s, name, import_config, fs) ==
    load_data(SetAttr(SetAttr(s, "trial_name", name),
                      "trial_config", Get(import_config, name, EmptyDict)),
              fs)

RECURSIVE EmitTimes(_, _, _)
EmitTimes(s, line, n) == IF n = 0 THEN s ELSE EmitTimes(Emit(s, line), line, n - 1)

display_info(s) ==
    EmitTimes(Emit(s, MsgTrialName), MsgConfigLine,
              Cardinality(DOMAIN s.obj["trial_config"]))

some_trial_b_function(s) == Emit(Emit(s, MsgHello), MsgKeys)

TrialA_init(s, name, import_config, fs) ==
    TrialBase_init(SetAttr(SetAttr(s, "name", name), "import_config", import_config),
                   name, import_config, fs)

TrialB_init(s, name, import_config, fs) ==
    Then(TrialBase_init(s, name, import_config, fs), LAMBDA s1 :
         some_trial_b_function(s1))

TrialC_init(s, name, config, ongoing, fs) ==
    Then(TrialBase_init(s, name, config, fs), LAMBDA s1 :
         SetAttr(s1, "ongoing", ongoing))

\* trial_class(*args, **kwargs); a is [name, import_config, ongoing]
Trial_init(s, trial_class, a, fs) ==
    CASE trial_class = "TrialA" -> TrialA_init(s, a.name, a.import_config, fs)
      [] trial_class = "TrialB" -> TrialB_init(s, a.name, a.import_config, fs)
      [] trial_class = "TrialC" -> TrialC_init(s, a.name, a.import_config, a.ongoing, fs)

\* self.trial_instance = trial_class(*args, **kwargs)
NewTrialInstance(s, trial_class, a, fs) ==
    Let(Trial_init(Frame(EmptyDict, s.out, "none", RetNone), trial_class, a, fs), LAMBDA t :
        IF t.exc # "none"
        THEN Frame(s.obj, t.out, t.exc, RetNone)
        ELSE Frame(Put(s.obj, "trial_instance", t.obj), t.out, "none", RetNone))

(***************************************************************************)
(* Cohort.                                                                 *)
(***************************************************************************)
\* the metric with the product replaced by a sum
Dosage_sum(cohort_info) == Len(Get(cohort_info, "d", << >>)) + Get(cohort_info, "dose", 0)

\* len(cohort_info.get('d',[]))*cohort_info.get('dose',0)
Dosage(cohort_info) == Len(Get(cohort_info, "d", << >>)) * Get(cohort_info, "dose", 0)

\* the loop of process_data from the i-th cohort of the configured cohorts on
RECURSIVE ProcessLoop(_, _, _, _)
ProcessLoop(cohort_data, items, i, processed_data) ==
    IF i > Len(items)
    THEN processed_data
    ELSE ProcessLoop(cohort_data, items, i + 1,
                     Put(processed_data, items[i],
                         Dosage(Get(cohort_data, items[i], EmptyDict))))

process_data(s) ==
    Return(Emit(s, MsgProcessed),
           RetDict(ProcessLoop(s.obj["cohort_data"], s.obj["cohort_config"].items, 1,
                               EmptyDict)))

\* patient_count is part of the line printed
print_patient_count(s, cohort_name) == Return(Emit(s, MsgPatients), RetNone)

Cohort_init(s, trial_class, a, fs) ==
    Then(NewTrialInstance(s, trial_class, a, fs), LAMBDA s1 :
    Let(SetAttr(s1, "cohort_config",
                Get(s1.obj["trial_instance"]["trial_config"], "cohorts", List(<< >>))),
        LAMBDA s2 :
    Let(SetAttr(s2, "cohort_data",
                Get(s2.obj["trial_instance"]["trial_data"], "cohorts", EmptyDict)),
        LAMBDA s3 :
    Let(process_data(s3), LAMBDA s4 :
        Return(SetAttr(s4, "dose_data", s4.ret.val), RetNone)))))

(***************************************************************************)
(* Schedule.                                                               *)
(***************************************************************************)
\* check_conditions testing the selection for None instead of for emptiness
check_conditions_not_none(s) ==
    IF s.obj["cohorts"] = StrAll
    THEN Return(Emit(s, MsgAll), RetBool(TRUE))
    ELSE Return(Emit(s, MsgSelected), RetBool(TRUE))

check_conditions(s) ==
    IF s.obj["cohorts"] = StrAll
    THEN Return(Emit(s, MsgAll), RetBool(TRUE))
    ELSE IF Len(s.obj["cohorts"].items) > 0
         THEN Return(Emit(s, MsgSelected), RetBool(TRUE))
         ELSE Return(Emit(s, MsgNoneSelected), RetBool(FALSE))

\* fetch_schedule taking the schedule out of the trial data (dict.pop for dict.get)
fetch_schedule_pop(s) ==
    Let(s.obj["trial_instance"]["trial_data"], LAMBDA td :
        Return(Emit(Emit(Emit(SetAttr(s, "trial_instance",
                                      Put(s.obj["trial_instance"], "trial_data",
                                          [k \in DOMAIN td \ {"schedule"} |-> td[k]])),
                              MsgCollecting), MsgSchedulePrinted), MsgScheduleLogged),
               RetNone))

\* schedule_data is part of the lines written
fetch_schedule(s) ==
    Return(Emit(Emit(Emit(s, MsgCollecting), MsgSchedulePrinted), MsgScheduleLogged),
           RetNone)

\* c[0] is defined for a str and raises TypeError for an int
Subscriptable(c) == c \notin IntCohorts

FailureStatus ==
    [failure |-> TRUE, critical |-> TRUE, message |-> NoCohortsMessage]

Schedule_init(s, trial_class, a, fs) ==
    Then(NewTrialInstance(s, trial_class, a, fs), LAMBDA s1 :
    Let(SetAttr(s1, "cohorts",
                Get(s1.obj["trial_instance"]["trial_config"], "cohorts", List(<< >>))),
        LAMBDA s2 :
    Let(SetAttr(s2, "collect_schedule",
                Get(s2.obj["trial_instance"]["trial_config"], "schedule", FALSE)),
        LAMBDA s3 :
    Let(check_conditions(s3), LAMBDA s4 :
        IF s4.ret.val
        THEN IF \E i \in DOMAIN s4.obj["cohorts"].items :
                    ~Subscriptable(s4.obj["cohorts"].items[i])
             THEN Raise(Return(s4, RetNone), "TypeError")
             ELSE IF s4.obj["collect_schedule"]
                  THEN fetch_schedule(Emit(s4, MsgCommencing))
                  ELSE Return(Emit(s4, MsgCommencing), RetNone)
        ELSE Return(SetAttr(Emit(s4, MsgNoCohorts), "pipeline_di", FailureStatus),
                    RetNone)))))

(***************************************************************************)
(* create_import(endpoint_class).TrialImportJob.                           *)
(***************************************************************************)
Endpoints == {"Schedule", "Cohort", "Trial"}

\* the methods the endpoint class defines or inherits
HasMethod(endpoint, m) ==
    CASE endpoint = "Schedule" -> m \in {"check_conditions", "fetch_schedule"}
      [] endpoint = "Cohort" -> m \in {"process_data", "print_patient_count"}
      [] endpoint = "Trial" -> m \in {"load_data", "display_info"}

\* endpoint_class.__init__(self, *args, **kwargs)
Endpoint_init(s, c, a, fs) ==
    CASE c.endpoint = "Schedule" -> Schedule_init(s, c.trial_class, a, fs)
      [] c.endpoint = "Cohort" -> Cohort_init(s, c.trial_class, a, fs)
      [] c.endpoint = "Trial" -> Trial_init(s, c.trial_class, a, fs)

TrialImportJob_init(s, c, a, fs) ==
    Then(Endpoint_init(s, c, a, fs), LAMBDA s1 :
         SetAttr(s1, "pipeline_di", [failure |-> FALSE]))

\* introduce without its else: the failure status is set on both paths
introduce_no_else(s) ==
    IF /\ "trial_instance" \in DOMAIN s.obj
       /\ "trial_name" \in DOMAIN s.obj["trial_instance"]
    THEN Return(Emit(Emit(SetAttr(s, "pipeline_di", [failure |-> TRUE, critical |-> TRUE]),
                          MsgInherited), MsgWelcome), RetNone)
    ELSE Return(Emit(SetAttr(s, "pipeline_di", [failure |-> TRUE, critical |-> TRUE]),
                     MsgNotInherited), RetNone)

introduce(s) ==
    IF /\ "trial_instance" \in DOMAIN s.obj
       /\ "trial_name" \in DOMAIN s.obj["trial_instance"]
    THEN Return(Emit(Emit(s, MsgInherited), MsgWelcome), RetNone)
    ELSE Return(Emit(SetAttr(s, "pipeline_di", [failure |-> TRUE, critical |-> TRUE]),
                     MsgNotInherited), RetNone)

run_import(s, c) ==
    Let(introduce(s), LAMBDA s1 :
        IF ~HasMethod(c.endpoint, "check_conditions")
        THEN Raise(s1, "AttributeError")
        ELSE Let(Return(check_conditions(s1), RetNone), LAMBDA s2 :
                 IF "collect_schedule" \notin DOMAIN s2.obj
                 THEN Raise(s2, "AttributeError")
                 ELSE IF s2.obj["collect_schedule"] THEN fetch_schedule(s2) ELSE s2))

\* cls(*args, **kwargs) for cls = endpoint_class or create_import(endpoint_class);
\* no object is bound when the constructor raises
New(c, a, fs, w) ==
    Let(IF c.wrapped
        THEN TrialImportJob_init(Frame(EmptyDict, w, "none", RetNone), c, a, fs)
        ELSE Endpoint_init(Frame(EmptyDict, w, "none", RetNone), c, a, fs),
        LAMBDA s : IF s.exc = "none" THEN s ELSE [s EXCEPT !.obj = EmptyDict])

(***************************************************************************)
(* The state machine: one object is constructed and then called.           *)
(***************************************************************************)
NoClass == [endpoint |-> "none", wrapped |-> FALSE, trial_class |-> "none"]
NoArgs == [name |-> "none", import_config |-> EmptyDict, ongoing |-> FALSE]

Init ==
    /\ files \in FileSystems
    /\ pc = "new"
    /\ cls = NoClass
    /\ obj = EmptyDict
    /\ out = << >>
    /\ exc = "none"
    /\ ret = RetNone
    /\ args = NoArgs
    /\ calls = << >>
    /\ mark = 0

\* the frame of a call on the object
Self == Frame(obj, out, "none", RetNone)

\* the state after a call that ended in frame s
Land(s, call) ==
    /\ obj' = s.obj
    /\ out' = s.out
    /\ exc' = s.exc
    /\ ret' = s.ret
    /\ pc' = IF s.exc = "none" THEN "live" ELSE "raised"
    /\ calls' = Append(calls, call)
    /\ mark' = Len(out)

Construct ==
    /\ pc = "new"
    /\ \E endpoint \in Endpoints, wrapped \in BOOLEAN, trial_class \in TrialClasses,
          ta \in TrialArgs, ongoing \in BOOLEAN :
          LET c == [endpoint |-> endpoint, wrapped |-> wrapped, trial_class |-> trial_class]
              a == [name |-> ta.name, import_config |-> ta.import_config, ongoing |-> ongoing]
          IN  \* only TrialC takes ongoing
              /\ (trial_class # "TrialC" => ongoing)
              /\ cls' = c
              /\ args' = a
              /\ Land(New(c, a, files, out), "construct")
    /\ UNCHANGED files

\* the object is there, and it has the method m
CanCall(m) ==
    /\ pc = "live"
    /\ Len(calls) <= MaxCalls
    /\ IF m \in {"introduce", "run_import"}
       THEN cls.wrapped
       ELSE HasMethod(cls.endpoint, m)

CallIntroduce ==
    /\ CanCall("introduce")
    /\ Land(introduce(Self), "introduce")
    /\ UNCHANGED <<files, cls, args>>

CallRunImport ==
    /\ CanCall("run_import")
    /\ Land(run_import(Self, cls), "run_import")
    /\ UNCHANGED <<files, cls, args>>

CallCheckConditions ==
    /\ CanCall("check_conditions")
    /\ Land(check_conditions(Self), "check_conditions")
    /\ UNCHANGED <<files, cls, args>>

CallFetchSchedule ==
    /\ CanCall("fetch_schedule")
    /\ Land(fetch_schedule(Self), "fetch_schedule")
    /\ UNCHANGED <<files, cls, args>>

CallProcessData ==
    /\ CanCall("process_data")
    /\ Land(process_data(Self), "process_data")
    /\ UNCHANGED <<files, cls, args>>

CallPatientCount ==
    /\ CanCall("print_patient_count")
    /\ \E cohort_name \in StrCohorts :
          Land(print_patient_count(Self, cohort_name), "print_patient_count")
    /\ UNCHANGED <<files, cls, args>>

CallDisplayInfo ==
    /\ CanCall("display_info")
    /\ Land(display_info(Self), "display_info")
    /\ UNCHANGED <<files, cls, args>>

Next ==
    \/ Construct
    \/ CallIntroduce
    \/ CallRunImport
    \/ CallCheckConditions
    \/ CallFetchSchedule
    \/ CallProcessData
    \/ CallPatientCount
    \/ CallDisplayInfo

Spec == Init /\ [][Next]_vars

(***************************************************************************)
(* What the properties speak of.                                           *)
(***************************************************************************)
\* the trial the object holds: its nested trial instance, or itself
ThisTrial == IF "trial_instance" \in DOMAIN obj THEN obj["trial_instance"] ELSE obj

\* construction has returned an object
Built == calls # << >> /\ DOMAIN obj # {}

LastCall == IF calls = << >> THEN "none" ELSE calls[Len(calls)]

\* the lines written by the last call
LastOut == SubSeq(out, mark + 1, Len(out))

Count(seq, S) == Cardinality({i \in DOMAIN seq : seq[i] \in S})

\* the first position of seq that holds a line of S, Len(seq) + 1 when there is none
First(seq, S) ==
    IF \E i \in DOMAIN seq : seq[i] \in S
    THEN CHOOSE i \in DOMAIN seq : seq[i] \in S /\ \A j \in 1..(i - 1) : seq[j] \notin S
    ELSE Len(seq) + 1

\* the settings of the trial in the main config the object was constructed from
ArgConfig == Get(args.import_config, args.name, EmptyDict)

\* the cohort selection is missing or an empty sequence
NoSelection == "cohorts" \notin DOMAIN ArgConfig \/ ArgConfig["cohorts"] = List(<< >>)

\* the collect-schedule flag is set
FlagSet == "schedule" \in DOMAIN ArgConfig /\ ArgConfig["schedule"]

\* the data file of the trial
ArgFile == files[IF "data_file" \in DOMAIN ArgConfig THEN ArgConfig["data_file"] ELSE DefaultDataFile]

\* the data file exists and contains an entry keyed by the trial name
HasEntry == ArgFile.kind = "map" /\ args.name \in DOMAIN ArgFile.map

ConstructedOnly == calls = <<"construct">>
ConstructedAndRun == calls = <<"construct", "run_import">>

IntroduceLines == {MsgInherited, MsgWelcome, MsgNotInherited}
CheckLines == {MsgAll, MsgSelected, MsgNoneSelected}
FetchLines == <<MsgCollecting, MsgSchedulePrinted, MsgScheduleLogged>>

\* what run_import writes when it performs introduce, the check and the optional fetch
RunOutputs ==
    {<<MsgInherited, MsgWelcome, c>> : c \in CheckLines}
    \cup {<<MsgInherited, MsgWelcome, c>> \o FetchLines : c \in CheckLines}

(***************************************************************************)
(* C1.  With a missing or empty cohort selection, the status of a job      *)
(* built with create_import(Schedule) is the failure/critical record with  *)
(* the fixed message once the job is constructed, and still after          *)
(* run_import has returned.                                                *)
(***************************************************************************)
C1_FailureStatusRecorded ==
    ( /\ cls.endpoint = "Schedule" /\ cls.wrapped
      /\ pc = "live"
      /\ ConstructedOnly \/ ConstructedAndRun
      /\ NoSelection )
    => /\ "pipeline_di" \in DOMAIN obj
       /\ obj["pipeline_di"] = FailureStatus

(***************************************************************************)
(* C2.  In an execution of the schedule checker, alone or wrapped by       *)
(* create_import (construction, then run_import), the schedule data is     *)
(* fetched and printed only if the selection check passed and the          *)
(* collect-schedule flag is set.                                           *)
(***************************************************************************)
C2_FetchOnlyWhenSelected ==
    ( /\ cls.endpoint = "Schedule"
      /\ ConstructedOnly \/ ConstructedAndRun
      /\ MsgSchedulePrinted \in Range(out) )
    => ~NoSelection /\ FlagSet

(***************************************************************************)
(* C3.  For the component types Schedule and Cohort, run_import of the     *)
(* wrapped type performs introduce, the condition check and the optional   *)
(* schedule fetch, in that order, and returns without an exception.        *)
(***************************************************************************)
C3_RunImportReturns ==
    ( /\ cls.endpoint \in {"Schedule", "Cohort"} /\ cls.wrapped
      /\ ConstructedAndRun )
    => /\ exc = "none"
       /\ LastOut \in RunOutputs

(***************************************************************************)
(* C4.  For a trial name with no entry in the data file (file missing,     *)
(* file without that key, file with no entries at all), constructing the   *)
(* trial completes without an exception and its trial data is the empty    *)
(* mapping.                                                                *)
(***************************************************************************)
C4_NoEntryEmptyData ==
    ( /\ cls.endpoint = "Trial"
      /\ ConstructedOnly
      /\ ~HasEntry )
    => /\ exc = "none"
       /\ "trial_data" \in DOMAIN obj
       /\ obj["trial_data"] = EmptyDict

(***************************************************************************)
(* C7.  Over the construction of a Schedule job built with create_import   *)
(* followed by one run_import, the condition check is performed once and   *)
(* the schedule fetch at most once, and no step is executed before the     *)
(* step that precedes it: introduce, then the check, then the fetch.       *)
(***************************************************************************)
C7_LinearProgression ==
    ( /\ cls.endpoint = "Schedule" /\ cls.wrapped
      /\ ConstructedAndRun )
    => /\ Count(out, CheckLines) = 1
       /\ Count(out, {MsgSchedulePrinted}) <= 1
       /\ First(out, IntroduceLines) < First(out, CheckLines)
       /\ First(out, CheckLines) < First(out, {MsgSchedulePrinted})

(***************************************************************************)
(* C5.  The result of process_data is a mapping whose keys are exactly the *)
(* configured cohorts, and the value of a cohort is the length of its      *)
(* sample sequence 'd' times its 'dose'; an absent cohort entry, 'd' or    *)
(* 'dose' gives 0.  Config [c1] with c1 = {d: [1,2,3], dose: 2} gives      *)
(* {c1: 6}.  Stated of the dose_data computed at construction and of the   *)
(* value every later call of process_data returns.                         *)
(***************************************************************************)
\* the cohorts configured for the trial
ConfiguredCohorts ==
    IF "cohorts" \in DOMAIN ArgConfig THEN Range(ArgConfig["cohorts"].items) ELSE {}

\* the cohort data of the trial in its data file
FileCohorts ==
    IF HasEntry /\ "cohorts" \in DOMAIN ArgFile.map[args.name]
    THEN ArgFile.map[args.name]["cohorts"]
    ELSE EmptyDict

ExpectedMetric(c) ==
    IF c \in DOMAIN FileCohorts
       /\ "d" \in DOMAIN FileCohorts[c]
       /\ "dose" \in DOMAIN FileCohorts[c]
    THEN Len(FileCohorts[c]["d"]) * FileCohorts[c]["dose"]
    ELSE 0

IsAggregate(r) ==
    /\ DOMAIN r = ConfiguredCohorts
    /\ \A c \in DOMAIN r : r[c] = ExpectedMetric(c)
    /\ ( /\ ConfiguredCohorts = {"c1"}
         /\ "c1" \in DOMAIN FileCohorts
         /\ "d" \in DOMAIN FileCohorts["c1"] /\ FileCohorts["c1"]["d"] = <<1, 2, 3>>
         /\ "dose" \in DOMAIN FileCohorts["c1"] /\ FileCohorts["c1"]["dose"] = 2 )
       => r = ("c1" :> 6)

C5_AggregateIsLengthTimesDose ==
    (cls.endpoint = "Cohort" /\ Built)
    => /\ "dose_data" \in DOMAIN obj
       /\ IsAggregate(obj["dose_data"])
       /\ LastCall = "process_data" => (ret.kind = "dict" /\ IsAggregate(ret.val))

\* process_data has returned {c1: 6, c2: 0}: c1 has three samples at dose 2, c2 no entry
C5_Witness ==
    /\ cls.endpoint = "Cohort"
    /\ LastCall = "process_data"
    /\ ret.kind = "dict"
    /\ DOMAIN ret.val = {"c1", "c2"}
    /\ ret.val["c1"] = 6 /\ ret.val["c2"] = 0
    /\ "c2" \notin DOMAIN FileCohorts

(***************************************************************************)
(* C6.  The condition check of the schedule checker returns true when the  *)
(* cohort selection is "all" or a non-empty sequence and false when it is  *)
(* empty or absent; a Schedule whose check failed holds the                *)
(* failure/critical status with the fixed message, and one whose check     *)
(* passed holds no status.  The error line written with the status is      *)
(* there exactly when the check of the construction failed.                *)
(***************************************************************************)
C6_CheckDecidesStatus ==
    /\ (cls.endpoint = "Schedule" /\ LastCall = "check_conditions")
       => ret = RetBool(~NoSelection)
    /\ (cls.endpoint = "Schedule" /\ ~cls.wrapped /\ Built)
       => IF NoSelection
          THEN /\ "pipeline_di" \in DOMAIN obj
               /\ obj["pipeline_di"] = FailureStatus
          ELSE "pipeline_di" \notin DOMAIN obj
    /\ (cls.endpoint = "Schedule" /\ Built)
       => (MsgNoCohorts \in Range(out) <=> NoSelection)

\* a Schedule with an empty selection: the check returned false and the status is set
C6_Witness ==
    /\ cls.endpoint = "Schedule" /\ ~cls.wrapped
    /\ calls = <<"construct", "check_conditions">>
    /\ "cohorts" \in DOMAIN ArgConfig /\ ArgConfig["cohorts"] = List(<< >>)
    /\ ret = RetBool(FALSE)
    /\ obj["pipeline_di"] = FailureStatus

(***************************************************************************)
(* C8.  In every state after a trial object is constructed, its trial data *)
(* is non-empty only if the data file exists and contains an entry keyed   *)
(* by the trial name; otherwise the trial_data attribute is defined and is *)
(* the empty mapping.                                                      *)
(***************************************************************************)
C8_DataOnlyFromEntry ==
    Built
    => /\ "trial_data" \in DOMAIN ThisTrial
       /\ ThisTrial["trial_data"] # EmptyDict => HasEntry
       /\ ~HasEntry => ThisTrial["trial_data"] = EmptyDict

\* a trial whose data file exists and has no entry for it, after a later call
C8_Witness ==
    /\ Built
    /\ Len(calls) >= 2
    /\ ArgFile.kind = "map"
    /\ args.name \notin DOMAIN ArgFile.map
    /\ ArgFile.map # EmptyDict
    /\ ThisTrial["trial_data"] = EmptyDict

(***************************************************************************)
(* C9.  The introduce step of a wrapped job sets the status to             *)
(* failure/critical exactly when the job has no nested trial instance;     *)
(* with a nested trial instance it writes the welcome message and leaves   *)
(* the status record (and every other attribute) unchanged.                *)
(***************************************************************************)
C9_IntroduceStatus ==
    [][ /\ (calls' = Append(calls, "introduce"))
           => IF cls.endpoint \in {"Schedule", "Cohort"}
              THEN /\ obj' = obj
                   /\ SubSeq(out', Len(out) + 1, Len(out')) = <<MsgInherited, MsgWelcome>>
              ELSE /\ obj'["pipeline_di"] = [failure |-> TRUE, critical |-> TRUE]
                   /\ MsgWelcome \notin Range(out')
        /\ (calls' = Append(calls, "run_import"))
           => IF cls.endpoint \in {"Schedule", "Cohort"}
              THEN obj'["pipeline_di"] = obj["pipeline_di"]
              ELSE obj'["pipeline_di"] = [failure |-> TRUE, critical |-> TRUE]
      ]_vars

\* a job wrapped around a trial class has no nested trial instance: introduce failed
C9_Witness ==
    /\ cls.endpoint = "Trial" /\ cls.wrapped
    /\ calls = <<"construct", "introduce">>
    /\ "trial_instance" \notin DOMAIN obj
    /\ obj["pipeline_di"] = [failure |-> TRUE, critical |-> TRUE]
    /\ LastOut = <<MsgNotInherited>>

(***************************************************************************)
(* C10.  Once a trial is loaded, no operation of the cohort aggregator,    *)
(* the schedule checker or the job composer, in any sequence, changes the  *)
(* trial's trial_name, trial_config or trial_data.                         *)
(***************************************************************************)
TrialCore(t) == <<t["trial_name"], t["trial_config"], t["trial_data"]>>

C10_TrialImmutable ==
    [][ Built => TrialCore(ThisTrial') = TrialCore(ThisTrial) ]_vars

\* a trial with data, after a run_import and a fetch_schedule
C10_Witness ==
    /\ Built
    /\ calls = <<"construct", "run_import", "fetch_schedule">>
    /\ "schedule" \in DOMAIN ThisTrial["trial_data"]
    /\ ThisTrial["trial_data"] = ArgFile.map[args.name]

====
